---------------------------- MODULE Spec2Model ----------------------------
(***************************************************************************)
(* A model of scrollguard's native layer: the LlamaWrapper lifecycle       *)
(* manager (jni/llama_jni.cpp), the heuristic classification engine        *)
(* (content_utils::classify_with_heuristics) and the platform bridge's     *)
(* global wrapper (native/native_bridge.cpp).                              *)
(*                                                                         *)
(* Conventions.  Text is a sequence of one-character strings.  A float     *)
(* confidence c is the integer 1000 * c (0.9f is 900).  A pointer is 0     *)
(* (nullptr) or a handle id in 1..MaxHandles.  A scalar the C++ code       *)
(* leaves uninitialised is a nondeterministic choice from a small set.     *)
(***************************************************************************)
EXTENDS Integers, Sequences, FiniteSets, TLC

(***************************************************************************)
(* Bounds of the model.                                                    *)
(***************************************************************************)
\* backend handles of one kind that can be live (allocated, not freed) at once
MaxHandles == 2
\* tokens concatenated into one text handed to the heuristic engine
MaxTokens == 2
\* tokens concatenated into one text handed to the category detector
MaxCatTokens == 3
\* how far the filler of a long text stops short of, or runs past, the
\* length limit of prepare_content_for_analysis
MaxPad == 12

VARIABLES
    LLAMA_CPP_AVAILABLE, \* the build: TRUE when llama.cpp is compiled in
    g_llama_wrapper,     \* TRUE when the bridge's global wrapper exists
    model_loaded_,       \* Impl::model_loaded_
    model_config_,       \* Impl::model_config_.model_path ("" before any load)
    model_,              \* Impl::model_ : 0 or a model handle
    ctx_,                \* Impl::ctx_   : 0 or a context handle
    live_models,         \* model handles allocated by the backend and not freed
    live_ctxs,           \* context handles allocated by the backend and not freed
    fs,                  \* the file system: path -> kind of file found there
    lastOp,              \* the call that produced this state
    prevOp,              \* the call before it
    last_load,           \* how this manager's latest load ended: "none", "ok", "failed"
    arg,                 \* its argument (a path, a text) or <<>>
    ret,                 \* what it returned
    pre,                 \* the manager's fields when it was called
    h_pc,                \* one function run on its own: "start", then "done"
    h_text,              \* its input
    h_result,            \* its result
    dl_pc,               \* the acquisition task's position
    dl_target,           \* its target_path
    dl_callback,         \* TRUE when it was given a progress_callback
    dl_i,                \* its loop counter i
    dl_events,           \* the LoadProgress values handed to the callback, in order
    dl_ret               \* the value of its future once it has one

vars == <<LLAMA_CPP_AVAILABLE, g_llama_wrapper, model_loaded_, model_config_,
          model_, ctx_, live_models, live_ctxs, fs, lastOp, prevOp, last_load,
          arg, ret, pre, h_pc, h_text, h_result,
          dl_pc, dl_target, dl_callback, dl_i, dl_events, dl_ret>>

mgrVars == <<model_loaded_, model_config_, model_, ctx_, live_models, live_ctxs>>
histVars == <<lastOp, prevOp, last_load, arg, ret, pre>>
heurVars == <<h_pc, h_text, h_result>>
dlVars == <<dl_pc, dl_target, dl_callback, dl_i, dl_events, dl_ret>>

(***************************************************************************)
(* Characters (cctype, "C" locale, ASCII).                                 *)
(***************************************************************************)
Lower == <<"a","b","c","d","e","f","g","h","i","j","k","l","m",
           "n","o","p","q","r","s","t","u","v","w","x","y","z">>
Upper == <<"A","B","C","D","E","F","G","H","I","J","K","L","M",
           "N","O","P","Q","R","S","T","U","V","W","X","Y","Z">>

UpperSet == {Upper[i] : i \in 1..Len(Upper)}
LowerSet == {Lower[i] : i \in 1..Len(Lower)}
\* the lower-case letter of each upper-case letter
LowerOf == [c \in UpperSet |-> Lower[CHOOSE i \in 1..Len(Upper) : Upper[i] = c]]

isupper(c) == c \in UpperSet
islower(c) == c \in LowerSet
isalpha(c) == isupper(c) \/ islower(c)
isspace(c) == c \in {" ", "\t", "\n", "\r", "\f"}
tolower(c) == IF isupper(c) THEN LowerOf[c] ELSE c

\* std::transform(s.begin(), s.end(), s.begin(), ::tolower)
transform_tolower(s) == [i \in 1..Len(s) |-> tolower(s[i])]

\* s.find(p) != std::string::npos
find(s, p) == \E i \in 0..(Len(s) - Len(p)) : \A j \in 1..Len(p) : s[i + j] = p[j]

\* std::count(s.begin(), s.end(), c)
count(s, c) == Cardinality({i \in 1..Len(s) : s[i] = c})

\* std::regex_replace(s, std::regex("\\s+"), " "): every maximal run of
\* white space becomes one space
regex_replace_ws(s) ==
    LET marked == [i \in 1..Len(s) |->
                      [c |-> s[i],
                       inside |-> i > 1 /\ isspace(s[i - 1]) /\ isspace(s[i])]]
        begins(m) == ~m.inside
        kept == SelectSeq(marked, begins)
    IN  [i \in 1..Len(kept) |-> IF isspace(kept[i].c) THEN " " ELSE kept[i].c]

(***************************************************************************)
(* ClassificationResult (include/llama_wrapper.h).  A default-constructed  *)
(* result has empty strings and indeterminate scalars: is_productive,      *)
(* confidence and processing_time_ms hold whatever the stack held.         *)
(***************************************************************************)
IndeterminateBool == BOOLEAN
IndeterminateFloat == {0, 2000}
IndeterminateInt == {0, -1}

ClassificationResult(p, c, r, t, s, e) ==
    [is_productive |-> p, confidence |-> c, reason |-> r,
     processing_time_ms |-> t, success |-> s, error_message |-> e]

\* the results "ClassificationResult result; result.success = false;
\* result.error_message = e; return result;" can return
FailureResults(e) ==
    {ClassificationResult(p, c, "", t, FALSE, e) :
        p \in IndeterminateBool, c \in IndeterminateFloat, t \in IndeterminateInt}

\* e.what() of a std::exception raised inside an engine (std::regex and
\* std::string can raise): the message of one such fault
exception_what == "std::bad_alloc"

\* what a catch block returns: a default-constructed result with
\* success = false and error_message = e.what(), its processing time then set
CaughtResults(what) ==
    {ClassificationResult(p, c, "", 0, FALSE, what) :
        p \in IndeterminateBool, c \in IndeterminateFloat}

NoResult == "none"

(***************************************************************************)
(* content_utils::classify_with_heuristics                                 *)
(***************************************************************************)
unproductive_patterns == <<
    [first |-> <<"y","o","u"," ","w","o","n","'","t"," ","b","e","l","i","e","v","e">>, second |-> 900],
    [first |-> <<"s","h","o","c","k","i","n","g">>, second |-> 800],
    [first |-> <<"v","i","r","a","l">>, second |-> 700],
    [first |-> <<"t","r","e","n","d","i","n","g">>, second |-> 700],
    [first |-> <<"c","l","i","c","k","b","a","i","t">>, second |-> 900],
    [first |-> <<"d","r","a","m","a">>, second |-> 700],
    [first |-> <<"g","o","s","s","i","p">>, second |-> 800],
    [first |-> <<"m","u","s","t"," ","s","e","e">>, second |-> 700],
    [first |-> <<"w","a","t","c","h"," ","t","h","i","s">>, second |-> 600],
    [first |-> <<"e","p","i","c"," ","f","a","i","l">>, second |-> 800],
    [first |-> <<"o","m","g">>, second |-> 600],
    [first |-> <<"w","t","f">>, second |-> 700],
    [first |-> <<"i","n","s","a","n","e">>, second |-> 700],
    [first |-> <<"c","r","a","z","y">>, second |-> 600] >>

productive_patterns == <<
    [first |-> <<"h","o","w"," ","t","o">>, second |-> 900],
    [first |-> <<"t","u","t","o","r","i","a","l">>, second |-> 900],
    [first |-> <<"l","e","a","r","n">>, second |-> 800],
    [first |-> <<"e","d","u","c","a","t","i","o","n">>, second |-> 900],
    [first |-> <<"g","u","i","d","e">>, second |-> 800],
    [first |-> <<"r","e","s","e","a","r","c","h">>, second |-> 900],
    [first |-> <<"a","n","a","l","y","s","i","s">>, second |-> 800],
    [first |-> <<"s","t","u","d","y">>, second |-> 800],
    [first |-> <<"i","n","s","i","g","h","t">>, second |-> 800],
    [first |-> <<"e","x","p","l","a","n","a","t","i","o","n">>, second |-> 800],
    [first |-> <<"u","n","d","e","r","s","t","a","n","d">>, second |-> 700],
    [first |-> <<"s","c","i","e","n","c","e">>, second |-> 800],
    [first |-> <<"t","e","c","h","n","o","l","o","g","y">>, second |-> 700],
    [first |-> <<"k","n","o","w","l","e","d","g","e">>, second |-> 800] >>

std_max(a, b) == IF a < b THEN b ELSE a

\* the loop "for (pattern : patterns) if (text.find(pattern.first) != npos)
\* score = std::max(score, pattern.second)", from pattern i on
RECURSIVE scan_patterns(_, _, _, _)
scan_patterns(patterns, text, i, score) ==
    IF i > Len(patterns) THEN score
    ELSE scan_patterns(patterns, text, i + 1,
            IF find(text, patterns[i].first)
            THEN std_max(score, patterns[i].second) ELSE score)

\* keyword_decision with ">=" for ">" in its first test: a tie of two
\* non-zero scores is no longer mixed content
keyword_decision_ge(max_productive_score, max_unproductive_score) ==
    IF max_productive_score >= max_unproductive_score /\ max_productive_score > 0
    THEN [is_productive |-> TRUE, confidence |-> max_productive_score,
          reason |-> "educational_keywords"]
    ELSE IF max_unproductive_score > max_productive_score
    THEN [is_productive |-> FALSE, confidence |-> max_unproductive_score,
          reason |-> "unproductive_keywords"]
    ELSE [is_productive |-> TRUE, confidence |-> 600, reason |-> "neutral_content"]

\* lines 422-436: the verdict of the keyword stage
keyword_decision(max_productive_score, max_unproductive_score) ==
    IF max_productive_score > max_unproductive_score
    THEN [is_productive |-> TRUE, confidence |-> max_productive_score,
          reason |-> "educational_keywords"]
    ELSE IF max_unproductive_score > max_productive_score
    THEN [is_productive |-> FALSE, confidence |-> max_unproductive_score,
          reason |-> "unproductive_keywords"]
    ELSE IF max_unproductive_score > 0 /\ max_productive_score > 0
    THEN [is_productive |-> TRUE, confidence |-> 500, reason |-> "mixed_content"]
    ELSE [is_productive |-> TRUE, confidence |-> 600, reason |-> "neutral_content"]

\* excessive_caps with ">=" for ">": a text that is exactly half capitals triggers
excessive_caps_ge(content, d) ==
    IF Cardinality({i \in 1..Len(content) : isalpha(content[i])}) > 0
       /\ 2 * Cardinality({i \in 1..Len(content) : isupper(content[i])})
            >= Cardinality({i \in 1..Len(content) : isalpha(content[i])})
    THEN [is_productive |-> FALSE, confidence |-> std_max(d.confidence, 700),
          reason |-> "excessive_caps"]
    ELSE d

\* excessive_punctuation with ">= 3" for "> 3"
excessive_punctuation_ge(content, d) ==
    IF count(content, "!") >= 3 \/ count(content, "?") >= 3
    THEN [is_productive |-> FALSE, confidence |-> std_max(d.confidence, 600),
          reason |-> "excessive_punctuation"]
    ELSE d

letter_count(content) == Cardinality({i \in 1..Len(content) : isalpha(content[i])})
caps_count(content) ==
    Cardinality({i \in 1..Len(content) : isalpha(content[i]) /\ isupper(content[i])})

\* lines 452-456: (float)caps_count / letter_count > 0.5f
excessive_caps(content, d) ==
    IF letter_count(content) > 0 /\ 2 * caps_count(content) > letter_count(content)
    THEN [is_productive |-> FALSE, confidence |-> std_max(d.confidence, 700),
          reason |-> "excessive_caps"]
    ELSE d

\* lines 458-466
excessive_punctuation(content, d) ==
    IF count(content, "!") > 3 \/ count(content, "?") > 3
    THEN [is_productive |-> FALSE, confidence |-> std_max(d.confidence, 600),
          reason |-> "excessive_punctuation"]
    ELSE d

normalized(content) == regex_replace_ws(transform_tolower(content))

classify_with_heuristics(content) ==
    LET lower_content == normalized(content)
        max_unproductive_score == scan_patterns(unproductive_patterns, lower_content, 1, 0)
        max_productive_score == scan_patterns(productive_patterns, lower_content, 1, 0)
        d == excessive_punctuation(content,
                 excessive_caps(content,
                     keyword_decision(max_productive_score, max_unproductive_score)))
    IN  ClassificationResult(d.is_productive, d.confidence, d.reason, 0, TRUE, "")

(***************************************************************************)
(* Inputs: texts are concatenations of at most MaxTokens tokens.           *)
(***************************************************************************)
Tokens == {
    <<"t","u","t","o","r","i","a","l">>,
    <<"l","e","a","r","n">>,
    <<"u","n","d","e","r","s","t","a","n","d">>,
    <<"y","o","u"," ","w","o","n","'","t"," ","b","e","l","i","e","v","e">>,
    <<"s","h","o","c","k","i","n","g">>,
    <<"v","i","r","a","l">>,
    <<"o","m","g">>,
    <<"c","a","t">>,
    <<" ">>,
    <<"!","!","!">>,
    <<"!">>,
    <<"?","?","?">>,
    <<"?">>,
    <<"?","?","?","?">>,
    <<"A","b">>,
    <<"H","E","L","L","o">>,
    <<"T","U","T","O","R","I","A","L">>,
    <<" ","\n"," ">> }

RECURSIVE TextsOf(_)
TextsOf(n) == IF n = 0 THEN {<<>>}
              ELSE LET shorter == TextsOf(n - 1)
                   IN  shorter \cup {s \o t : s \in shorter, t \in Tokens}

Texts == TextsOf(MaxTokens)

(***************************************************************************)
(* content_utils::prepare_content_for_analysis and                         *)
(* generate_classification_prompt                                          *)
(***************************************************************************)
max_content_length == 500

prompt_prefix ==
    <<"C","l","a","s","s","i","f","y"," ","t","h","i","s"," ","s","o","c",
      "i","a","l"," ","m","e","d","i","a"," ","c","o","n","t","e","n","t",
      " ","a","s"," ","P","R","O","D","U","C","T","I","V","E"," ","o","r",
      " ","U","N","P","R","O","D","U","C","T","I","V","E",".","\n","\n","P",
      "R","O","D","U","C","T","I","V","E"," ","c","o","n","t","e","n","t",
      ":"," ","e","d","u","c","a","t","i","o","n","a","l",","," ","i","n",
      "f","o","r","m","a","t","i","v","e",","," ","c","o","n","s","t","r",
      "u","c","t","i","v","e",","," ","h","e","l","p","f","u","l","\n","U",
      "N","P","R","O","D","U","C","T","I","V","E"," ","c","o","n","t","e",
      "n","t",":"," ","c","l","i","c","k","b","a","i","t",","," ","g","o",
      "s","s","i","p",","," ","d","r","a","m","a",","," ","t","i","m","e",
      "-","w","a","s","t","i","n","g","\n","\n","C","o","n","t","e","n","t",
      ":"," ","\"">>

prompt_suffix ==
    <<"\"","\n","\n","C","l","a","s","s","i","f","i","c","a","t","i","o",
      "n",":">>

productive_keywords == <<
    <<"l","e","a","r","n">>,
    <<"e","d","u","c","a","t","i","o","n">>,
    <<"r","e","s","e","a","r","c","h">>,
    <<"s","t","u","d","y">>,
    <<"a","n","a","l","y","s","i","s">>,
    <<"w","o","r","k">>,
    <<"p","r","o","j","e","c","t">>,
    <<"d","e","v","e","l","o","p","m","e","n","t">>,
    <<"p","r","o","g","r","a","m","m","i","n","g">>,
    <<"s","c","i","e","n","c","e">>,
    <<"t","e","c","h","n","o","l","o","g","y">>,
    <<"b","u","s","i","n","e","s","s">> >>

unproductive_keywords == <<
    <<"f","u","n","n","y">>,
    <<"m","e","m","e">>,
    <<"v","i","r","a","l">>,
    <<"t","r","e","n","d","i","n","g">>,
    <<"c","e","l","e","b","r","i","t","y">>,
    <<"g","o","s","s","i","p">>,
    <<"d","r","a","m","a">>,
    <<"e","n","t","e","r","t","a","i","n","m","e","n","t">>,
    <<"g","a","m","e">>,
    <<"f","u","n">>,
    <<"p","a","r","t","y">>,
    <<"s","o","c","i","a","l">> >>

ellipsis == <<".",".",".">>

RECURSIVE trim_left(_)
trim_left(s) ==
    IF s # <<>> /\ Head(s) \in {" ", "\t", "\n", "\r"} THEN trim_left(Tail(s)) ELSE s

RECURSIVE trim_right(_)
trim_right(s) ==
    IF s # <<>> /\ s[Len(s)] \in {" ", "\t", "\n", "\r"}
    THEN trim_right(SubSeq(s, 1, Len(s) - 1)) ELSE s

prepare_content_for_analysis(raw_content) ==
    LET content == trim_right(trim_left(regex_replace_ws(raw_content)))
    IN  IF Len(content) > max_content_length
        THEN SubSeq(content, 1, max_content_length) \o ellipsis
        ELSE content

generate_classification_prompt(content) ==
    prompt_prefix \o prepare_content_for_analysis(content) \o prompt_suffix

(***************************************************************************)
(* LlamaWrapper::Impl::classify_with_llama                                 *)
(***************************************************************************)
\* the loop "for (keyword : keywords) if (prompt.find(keyword) != npos) score++"
keyword_score(lower_prompt, keywords) ==
    Cardinality({i \in 1..Len(keywords) : find(lower_prompt, keywords[i])})

abs(x) == IF x < 0 THEN -x ELSE x

classify_with_llama(content) ==
    LET lower_prompt == transform_tolower(generate_classification_prompt(content))
        productive_score == keyword_score(lower_prompt, productive_keywords)
        unproductive_score == keyword_score(lower_prompt, unproductive_keywords)
        total_score == productive_score + unproductive_score
    IN  ClassificationResult(
            productive_score >= unproductive_score,
            IF total_score > 0
            THEN (1000 * abs(productive_score - unproductive_score)) \div total_score
            ELSE 500,
            "llama_heuristic_fallback", 0, TRUE, "")

(***************************************************************************)
(* The file system and the backend's handles                               *)
(***************************************************************************)
Paths == {"missing.gguf", "unreadable.gguf", "empty.gguf", "model.gguf"}

InitialFs ==
    [p \in Paths |-> CASE p = "missing.gguf" -> "missing"
                       [] p = "unreadable.gguf" -> "unreadable"
                       [] p = "empty.gguf" -> "empty"
                       [] OTHER -> "data"]

\* the kinds of file: none, one that cannot be opened, one of no bytes, a
\* model, and the 1028 bytes create_placeholder_model writes
FileKinds == {"missing", "unreadable", "empty", "data", "placeholder"}

\* ifstream_good that also insists on a first byte to read
ifstream_good_nonempty(path) == fs[path] \in {"data", "placeholder"}

\* std::ifstream file(path); file.good()
ifstream_good(path) == fs[path] \in {"empty", "data", "placeholder"}

Handles == 1..MaxHandles
nullptr == 0

\* llama_state_get_size(ctx): the size the backend reports for a context
llama_state_get_size(ctx) == 1024 * ctx

\* 1024 * 1024 * 200
fallback_estimate == 209715200

(***************************************************************************)
(* LlamaWrapper::Impl                                                      *)
(***************************************************************************)
llama_available_ == LLAMA_CPP_AVAILABLE

mgr == <<model_loaded_, model_config_, model_, ctx_, live_models, live_ctxs>>

is_model_loaded == model_loaded_

\* get_memory_usage without its "if (!model_loaded_) return 0;"
get_memory_usage_unguarded ==
    IF llama_available_ /\ ctx_ # nullptr THEN llama_state_get_size(ctx_)
    ELSE fallback_estimate

get_memory_usage ==
    IF ~model_loaded_ THEN 0
    ELSE IF llama_available_ /\ ctx_ # nullptr THEN llama_state_get_size(ctx_)
    ELSE fallback_estimate

\* the status line and the artifact path it is followed by
get_model_info ==
    IF ~model_loaded_ THEN <<"Model not loaded", "">>
    ELSE IF llama_available_ THEN <<"llama.cpp model loaded: ", model_config_>>
    ELSE <<"Fallback mode: ", model_config_>>

Called(op, a, r) ==
    /\ lastOp' = op
    /\ prevOp' = lastOp
    /\ last_load' = IF op = "load" THEN (IF r THEN "ok" ELSE "failed")
                    ELSE IF op = "cleanup" THEN "none" ELSE last_load
    /\ arg' = a
    /\ ret' = r
    /\ pre' = mgr

\* load_llama_model: the backend raises before model_ is assigned
load_llama_model_throws(config) ==
    /\ UNCHANGED <<model_loaded_, model_, ctx_, live_models, live_ctxs>>
    /\ Called("load", config, FALSE)

\* llama_model_load_from_file returns nullptr
load_llama_model_no_model(config) ==
    /\ model_' = nullptr
    /\ UNCHANGED <<model_loaded_, ctx_, live_models, live_ctxs>>
    /\ Called("load", config, FALSE)

\* the model is created, then llama_init_from_model raises
load_llama_model_ctx_throws(config) ==
    /\ fs[config] = "data"
    /\ \E m \in Handles \ live_models :
        /\ m = CHOOSE h \in Handles \ live_models : TRUE
        /\ model_' = m
        /\ live_models' = live_models \cup {m}
    /\ UNCHANGED <<model_loaded_, ctx_, live_ctxs>>
    /\ Called("load", config, FALSE)

\* the model is created, llama_init_from_model returns nullptr, the model
\* is freed again
load_llama_model_no_ctx(config) ==
    /\ fs[config] = "data"
    /\ Handles \ live_models # {}
    /\ ctx_' = nullptr
    /\ model_' = nullptr
    /\ UNCHANGED <<model_loaded_, live_models, live_ctxs>>
    /\ Called("load", config, FALSE)

\* both handles are created
load_llama_model_ok(config) ==
    /\ fs[config] = "data"
    /\ Handles \ live_models # {}
    /\ Handles \ live_ctxs # {}
    /\ LET m == CHOOSE h \in Handles \ live_models : TRUE
           c == CHOOSE h \in Handles \ live_ctxs : TRUE
       IN  /\ model_' = m
           /\ live_models' = live_models \cup {m}
           /\ ctx_' = c
           /\ live_ctxs' = live_ctxs \cup {c}
    /\ model_loaded_' = TRUE
    /\ Called("load", config, TRUE)

load_llama_model(config) ==
    \/ load_llama_model_throws(config)
    \/ load_llama_model_no_model(config)
    \/ load_llama_model_ctx_throws(config)
    \/ load_llama_model_no_ctx(config)
    \/ load_llama_model_ok(config)

\* lines 47-59: no backend compiled in
load_model_fallback(config) ==
    IF ~ifstream_good(config)
    THEN /\ UNCHANGED <<model_loaded_, model_, ctx_, live_models, live_ctxs>>
         /\ Called("load", config, FALSE)
    ELSE /\ model_loaded_' = TRUE
         /\ UNCHANGED <<model_, ctx_, live_models, live_ctxs>>
         /\ Called("load", config, TRUE)

load_model(config) ==
    /\ g_llama_wrapper
    /\ model_config_' = config
    /\ IF llama_available_ THEN load_llama_model(config) ELSE load_model_fallback(config)
    /\ UNCHANGED <<LLAMA_CPP_AVAILABLE, g_llama_wrapper, fs, heurVars, dlVars>>

\* unload_effect that releases the handles and forgets model_loaded_ = false
unload_effect_keeps_flag ==
    IF model_loaded_
    THEN /\ ctx_' = nullptr
         /\ live_ctxs' = IF llama_available_ /\ ctx_ # nullptr
                         THEN live_ctxs \ {ctx_} ELSE live_ctxs
         /\ model_' = nullptr
         /\ live_models' = IF llama_available_ /\ model_ # nullptr
                           THEN live_models \ {model_} ELSE live_models
         /\ model_loaded_' = model_loaded_
    ELSE UNCHANGED <<model_loaded_, model_, ctx_, live_models, live_ctxs>>

\* what unload_model does to the manager's fields and to the backend
unload_effect ==
    IF model_loaded_
    THEN /\ ctx_' = nullptr
         /\ live_ctxs' = IF llama_available_ /\ ctx_ # nullptr
                         THEN live_ctxs \ {ctx_} ELSE live_ctxs
         /\ model_' = nullptr
         /\ live_models' = IF llama_available_ /\ model_ # nullptr
                           THEN live_models \ {model_} ELSE live_models
         /\ model_loaded_' = FALSE
    ELSE UNCHANGED <<model_loaded_, model_, ctx_, live_models, live_ctxs>>

unload_model ==
    /\ g_llama_wrapper
    /\ unload_effect
    /\ Called("unload", <<>>, NoResult)
    /\ UNCHANGED <<model_config_, LLAMA_CPP_AVAILABLE, g_llama_wrapper, fs, heurVars, dlVars>>

\* the texts the manager is handed: by its callers, and by warm_up
ManagerTexts == {<<>>, <<"o","m","g">>, <<"l","e","a","r","n">>}
warm_up_text == <<"w","a","r","m"," ","u","p"," ","t","e","s","t">>

\* the two engines' results on those texts, computed once
heuristics_result == [t \in ManagerTexts \cup {warm_up_text} |-> classify_with_heuristics(t)]
llama_result == [t \in ManagerTexts \cup {warm_up_text} |-> classify_with_llama(t)]

\* the try block of classify_content: the engine's result, or the result of
\* a catch block (classify_with_llama's own, or classify_content's)
engine_results(content) ==
    (IF llama_available_ /\ ctx_ # nullptr THEN {llama_result[content]}
     ELSE {heuristics_result[content]})
    \cup CaughtResults(exception_what)

\* classify_content without its "if (!model_loaded_)" early return
classify_content_results_no_loaded_check(content) ==
    IF content = <<>> THEN FailureResults("Empty content")
    ELSE engine_results(content)

\* classify_content without its "if (content.empty())" early return
classify_content_results_no_empty_check(content) ==
    IF ~model_loaded_ THEN FailureResults("Model not loaded")
    ELSE engine_results(content)

\* the results classify_content(content, context) can return
classify_content_results(content) ==
    IF ~model_loaded_ THEN FailureResults("Model not loaded")
    ELSE IF content = <<>> THEN FailureResults("Empty content")
    ELSE engine_results(content)

classify_content(content) ==
    /\ g_llama_wrapper
    /\ \E result \in classify_content_results(content) :
           Called("classify", content, result)
    /\ UNCHANGED <<mgrVars, LLAMA_CPP_AVAILABLE, g_llama_wrapper, fs, heurVars, dlVars>>

warm_up ==
    /\ g_llama_wrapper
    /\ IF ~model_loaded_ THEN TRUE
       ELSE \E result \in classify_content_results(warm_up_text) : TRUE
    /\ Called("warm_up", <<>>, NoResult)
    /\ UNCHANGED <<mgrVars, LLAMA_CPP_AVAILABLE, g_llama_wrapper, fs, heurVars, dlVars>>

(***************************************************************************)
(* The bridge: nativeInit, nativeClassifyContent and nativeCleanup         *)
(***************************************************************************)
\* json_result that writes the error field for every result
json_result_always_error(result) ==
    [success |-> result.success, is_productive |-> result.is_productive,
     confidence |-> result.confidence, reason |-> result.reason,
     processing_time_ms |-> result.processing_time_ms,
     error |-> result.error_message]

\* the JSON text built at lines 122-133, as the record of its fields
json_result(result) ==
    IF ~result.success
    THEN [success |-> result.success, is_productive |-> result.is_productive,
          confidence |-> result.confidence, reason |-> result.reason,
          processing_time_ms |-> result.processing_time_ms,
          error |-> result.error_message]
    ELSE [success |-> result.success, is_productive |-> result.is_productive,
          confidence |-> result.confidence, reason |-> result.reason,
          processing_time_ms |-> result.processing_time_ms]

json_error(message) == [success |-> FALSE, error |-> message]

nativeClassifyContent(content) ==
    /\ IF ~g_llama_wrapper \/ ~is_model_loaded
       THEN Called("nativeClassify", content, json_error("Model not loaded"))
       ELSE \/ \* GetStringUTFChars returned no string
               Called("nativeClassify", content, json_error("Invalid content"))
            \/ \E result \in classify_content_results(content) :
                   Called("nativeClassify", content, json_result(result))
    /\ UNCHANGED <<mgrVars, LLAMA_CPP_AVAILABLE, g_llama_wrapper, fs, heurVars, dlVars>>

nativeInit ==
    /\ g_llama_wrapper' = TRUE
    /\ Called("init", <<>>, TRUE)
    /\ UNCHANGED <<mgrVars, LLAMA_CPP_AVAILABLE, fs, heurVars, dlVars>>

\* unload_model(), then reset(): ~Impl calls unload_model() once more and
\* the manager's fields are gone
nativeCleanup ==
    /\ g_llama_wrapper
    /\ g_llama_wrapper' = FALSE
    /\ model_loaded_' = FALSE
    /\ model_config_' = ""
    /\ model_' = nullptr
    /\ ctx_' = nullptr
    /\ live_ctxs' = IF model_loaded_ /\ llama_available_ /\ ctx_ # nullptr
                    THEN live_ctxs \ {ctx_} ELSE live_ctxs
    /\ live_models' = IF model_loaded_ /\ llama_available_ /\ model_ # nullptr
                      THEN live_models \ {model_} ELSE live_models
    /\ Called("cleanup", <<>>, NoResult)
    /\ UNCHANGED <<LLAMA_CPP_AVAILABLE, fs, heurVars, dlVars>>

\* no acquisition task
NoTask ==
    /\ dl_pc = "idle"
    /\ dl_target = ""
    /\ dl_callback = FALSE
    /\ dl_i = 0
    /\ dl_events = <<>>
    /\ dl_ret = NoResult

(***************************************************************************)
(* The lifecycle manager driven by any sequence of calls                   *)
(***************************************************************************)
Init ==
    /\ LLAMA_CPP_AVAILABLE \in BOOLEAN
    /\ g_llama_wrapper = TRUE
    /\ model_loaded_ = FALSE
    /\ model_config_ = ""
    /\ model_ = nullptr
    /\ ctx_ = nullptr
    /\ live_models = {}
    /\ live_ctxs = {}
    /\ fs = InitialFs
    /\ lastOp = "init"
    /\ prevOp = "init"
    /\ last_load = "none"
    /\ arg = <<>>
    /\ ret = TRUE
    /\ pre = mgr
    /\ h_pc = "idle"
    /\ h_text = <<>>
    /\ h_result = NoResult
    /\ NoTask

Load == \E config \in Paths : load_model(config)
Unload == unload_model
Classify == \E content \in ManagerTexts : classify_content(content)
WarmUp == warm_up
NativeInit == nativeInit
NativeClassify == \E content \in ManagerTexts : nativeClassifyContent(content)
NativeCleanup == nativeCleanup

Next ==
    \/ Load \/ Unload \/ Classify \/ WarmUp
    \/ NativeInit \/ NativeClassify \/ NativeCleanup

Spec == Init /\ [][Next]_vars

(***************************************************************************)
(* The heuristic engine applied to one text                                *)
(***************************************************************************)
InitHeur ==
    /\ LLAMA_CPP_AVAILABLE = FALSE
    /\ g_llama_wrapper = TRUE
    /\ model_loaded_ = FALSE
    /\ model_config_ = ""
    /\ model_ = nullptr
    /\ ctx_ = nullptr
    /\ live_models = {}
    /\ live_ctxs = {}
    /\ fs = InitialFs
    /\ lastOp = "init"
    /\ prevOp = "init"
    /\ last_load = "none"
    /\ arg = <<>>
    /\ ret = TRUE
    /\ pre = mgr
    /\ h_pc = "start"
    /\ h_text \in Texts
    /\ h_result = NoResult
    /\ NoTask

\* a fault leaving a function that has no handler: the caller gets the
\* exception, not a result
Raised(what) ==
    /\ h_result' = [exception |-> what]
    /\ h_pc' = "raised"

HeurClassify ==
    /\ h_pc = "start"
    /\ \/ /\ h_result' = classify_with_heuristics(h_text)
          /\ h_pc' = "done"
       \/ Raised(exception_what)
    /\ UNCHANGED <<LLAMA_CPP_AVAILABLE, g_llama_wrapper, mgrVars, fs, histVars, h_text, dlVars>>

NextHeur == HeurClassify

SpecHeur == InitHeur /\ [][NextHeur]_vars

(***************************************************************************)
(* ContentClassifier::determine_category (jni/content_classifier.cpp).     *)
(* A ContentCategory is the name of its enumerator.                        *)
(***************************************************************************)
ContentCategory == {"NEWS", "ENTERTAINMENT", "EDUCATIONAL", "SOCIAL", "COMMERCIAL", "UNKNOWN"}

news_keywords == <<
    <<"b","r","e","a","k","i","n","g">>,
    <<"n","e","w","s">>,
    <<"r","e","p","o","r","t">>,
    <<"a","c","c","o","r","d","i","n","g"," ","t","o">>,
    <<"s","o","u","r","c","e","s"," ","s","a","y">>,
    <<"a","n","n","o","u","n","c","e","m","e","n","t">>,
    <<"o","f","f","i","c","i","a","l">>,
    <<"s","t","a","t","e","m","e","n","t">>,
    <<"u","p","d","a","t","e">> >>

educational_keywords == <<
    <<"l","e","a","r","n">>,
    <<"t","u","t","o","r","i","a","l">>,
    <<"h","o","w"," ","t","o">>,
    <<"g","u","i","d","e">>,
    <<"e","x","p","l","a","n","a","t","i","o","n">>,
    <<"r","e","s","e","a","r","c","h">>,
    <<"s","t","u","d","y">>,
    <<"a","n","a","l","y","s","i","s">>,
    <<"s","c","i","e","n","c","e">>,
    <<"e","d","u","c","a","t","i","o","n">> >>

entertainment_keywords == <<
    <<"f","u","n","n","y">>,
    <<"h","i","l","a","r","i","o","u","s">>,
    <<"m","e","m","e">>,
    <<"v","i","r","a","l">>,
    <<"t","r","e","n","d","i","n","g">>,
    <<"c","e","l","e","b","r","i","t","y">>,
    <<"m","o","v","i","e">>,
    <<"m","u","s","i","c">>,
    <<"g","a","m","e">>,
    <<"f","u","n">> >>

commercial_keywords == <<
    <<"b","u","y">>,
    <<"s","a","l","e">>,
    <<"d","i","s","c","o","u","n","t">>,
    <<"o","f","f","e","r">>,
    <<"d","e","a","l">>,
    <<"p","r","i","c","e">>,
    <<"p","r","o","d","u","c","t">>,
    <<"r","e","v","i","e","w">>,
    <<"s","p","o","n","s","o","r","e","d">>,
    <<"a","d">> >>

\* count_keywords counting every occurrence of a keyword, not the keyword once
count_keywords_occurrences(content, keywords) ==
    LET occurrences(p) ==
            Cardinality({i \in 0..(Len(content) - Len(p)) :
                            \A j \in 1..Len(p) : content[i + j] = p[j]})
        RECURSIVE total(_)
        total(k) == IF k > Len(keywords) THEN 0
                    ELSE occurrences(keywords[k]) + total(k + 1)
    IN  total(1)

\* "for (keyword : keywords) if (content.find(keyword) != npos) count++"
count_keywords(content, keywords) ==
    Cardinality({k \in 1..Len(keywords) : find(content, keywords[k])})

\* std::max({a, b, c, d})
std_max4(a, b, c, d) == std_max(std_max(a, b), std_max(c, d))

\* category_of_scores testing educational_score before news_score
category_of_scores_educational_first(news_score, educational_score, entertainment_score, commercial_score) ==
    LET max_score == std_max4(news_score, educational_score,
                              entertainment_score, commercial_score)
    IN  IF max_score = 0 THEN "UNKNOWN"
        ELSE IF max_score = educational_score THEN "EDUCATIONAL"
        ELSE IF max_score = news_score THEN "NEWS"
        ELSE IF max_score = entertainment_score THEN "ENTERTAINMENT"
        ELSE IF max_score = commercial_score THEN "COMMERCIAL"
        ELSE "SOCIAL"

\* the chain of returns that ends determine_category
category_of_scores(news_score, educational_score, entertainment_score, commercial_score) ==
    LET max_score == std_max4(news_score, educational_score,
                              entertainment_score, commercial_score)
    IN  IF max_score = 0 THEN "UNKNOWN"
        ELSE IF max_score = news_score THEN "NEWS"
        ELSE IF max_score = educational_score THEN "EDUCATIONAL"
        ELSE IF max_score = entertainment_score THEN "ENTERTAINMENT"
        ELSE IF max_score = commercial_score THEN "COMMERCIAL"
        ELSE "SOCIAL"

determine_category(content) ==
    LET lower_content == transform_tolower(content)
    IN  category_of_scores(count_keywords(lower_content, news_keywords),
                           count_keywords(lower_content, educational_keywords),
                           count_keywords(lower_content, entertainment_keywords),
                           count_keywords(lower_content, commercial_keywords))

\* get_content_category_name: the lower-case name of the category
get_content_category_name(content) ==
    LET category == determine_category(content)
    IN  CASE category = "NEWS" -> "news"
          [] category = "EDUCATIONAL" -> "educational"
          [] category = "ENTERTAINMENT" -> "entertainment"
          [] category = "SOCIAL" -> "social"
          [] category = "COMMERCIAL" -> "commercial"
          [] OTHER -> "unknown"

(***************************************************************************)
(* Inputs of the category detector: concatenations of at most              *)
(* MaxCatTokens tokens.                                                    *)
(***************************************************************************)
CatTokens == {
    <<"b","r","e","a","k","i","n","g"," ">>,
    <<"N","e","w","s"," ">>,
    <<"l","e","a","r","n"," ">>,
    <<"s","t","u","d","y"," ","g","u","i","d","e"," ">>,
    <<"f","u","n","n","y"," ">>,
    <<"b","u","y"," ">>,
    <<"s","a","l","e"," ">>,
    <<"c","a","t"," ">> }

RECURSIVE CatTextsOf(_)
CatTextsOf(n) == IF n = 0 THEN {<<>>}
                 ELSE LET shorter == CatTextsOf(n - 1)
                      IN  shorter \cup {s \o t : s \in shorter, t \in CatTokens}

CatTexts == CatTextsOf(MaxCatTokens)

\* the manager and the bridge at rest, for the runs of one function
AtRest ==
    /\ LLAMA_CPP_AVAILABLE = FALSE
    /\ g_llama_wrapper = TRUE
    /\ model_loaded_ = FALSE
    /\ model_config_ = ""
    /\ model_ = nullptr
    /\ ctx_ = nullptr
    /\ live_models = {}
    /\ live_ctxs = {}
    /\ fs = InitialFs
    /\ lastOp = "init"
    /\ prevOp = "init"
    /\ last_load = "none"
    /\ arg = <<>>
    /\ ret = TRUE
    /\ pre = mgr
    /\ NoTask

restVars == <<LLAMA_CPP_AVAILABLE, g_llama_wrapper, mgrVars, fs, histVars, dlVars>>

(***************************************************************************)
(* ContentClassifier::apply_context_adjustments, classify_with_context and *)
(* classify_content_with_context (jni/content_classifier.cpp).  The float  *)
(* sums and the product by 0.8f are taken exactly, in thousandths.         *)
(***************************************************************************)
ClassificationContext(a, c, l, n) ==
    [app_package |-> a, category |-> c, language |-> l, content_length |-> n]

\* std::min that always yields its second argument: no clamp at 1.0
std_min_second(a, b) == b

std_min(a, b) == IF b < a THEN b ELSE a

linkedin == <<"l","i","n","k","e","d","i","n">>
tiktok == <<"t","i","k","t","o","k">>

\* app_adjustment whose tiktok branch also marks the result unproductive
app_adjustment_tiktok_flips(result, context) ==
    IF find(context.app_package, linkedin)
    THEN IF result.is_productive
         THEN [result EXCEPT !.confidence = std_min(1000, @ + 200),
                             !.reason = @ \o "_linkedin_boost"]
         ELSE result
    ELSE IF find(context.app_package, tiktok)
    THEN [result EXCEPT !.is_productive = FALSE,
                        !.confidence = std_min(1000, @ + 100),
                        !.reason = @ \o "_tiktok_penalty"]
    ELSE result

\* "Adjust confidence based on app context"
app_adjustment(result, context) ==
    IF find(context.app_package, linkedin)
    THEN IF result.is_productive
         THEN [result EXCEPT !.confidence = std_min(1000, @ + 200),
                             !.reason = @ \o "_linkedin_boost"]
         ELSE result
    ELSE IF find(context.app_package, tiktok)
    THEN IF ~result.is_productive
         THEN [result EXCEPT !.confidence = std_min(1000, @ + 100),
                             !.reason = @ \o "_tiktok_penalty"]
         ELSE result
    ELSE result

\* category_adjustment whose educational boost is 0.1
category_adjustment_small_boost(result, context) ==
    CASE context.category = "EDUCATIONAL" /\ result.is_productive ->
            [result EXCEPT !.confidence = std_min(1000, @ + 100),
                           !.reason = @ \o "_educational_boost"]
      [] context.category = "ENTERTAINMENT" /\ ~result.is_productive ->
            [result EXCEPT !.confidence = std_min(1000, @ + 100),
                           !.reason = @ \o "_entertainment_penalty"]
      [] context.category = "COMMERCIAL" /\ ~result.is_productive ->
            [result EXCEPT !.confidence = std_min(1000, @ + 200),
                           !.reason = @ \o "_commercial_penalty"]
      [] OTHER -> result

\* "Adjust based on content category": the switch
category_adjustment(result, context) ==
    CASE context.category = "EDUCATIONAL" /\ result.is_productive ->
            [result EXCEPT !.confidence = std_min(1000, @ + 150),
                           !.reason = @ \o "_educational_boost"]
      [] context.category = "ENTERTAINMENT" /\ ~result.is_productive ->
            [result EXCEPT !.confidence = std_min(1000, @ + 100),
                           !.reason = @ \o "_entertainment_penalty"]
      [] context.category = "COMMERCIAL" /\ ~result.is_productive ->
            [result EXCEPT !.confidence = std_min(1000, @ + 200),
                           !.reason = @ \o "_commercial_penalty"]
      [] OTHER -> result

\* length_adjustment with "<= 50" for "< 50": a text of 50 characters counts
\* as short
length_adjustment_le(result, context) ==
    IF context.content_length <= 50
    THEN [result EXCEPT !.confidence = (@ * 8) \div 10,
                        !.reason = @ \o "_short_content"]
    ELSE IF context.content_length > 500 /\ result.is_productive
    THEN [result EXCEPT !.confidence = std_min(1000, @ + 100),
                        !.reason = @ \o "_long_content_boost"]
    ELSE result

\* "Adjust based on content length"
length_adjustment(result, context) ==
    IF context.content_length < 50
    THEN [result EXCEPT !.confidence = (@ * 8) \div 10,
                        !.reason = @ \o "_short_content"]
    ELSE IF context.content_length > 500 /\ result.is_productive
    THEN [result EXCEPT !.confidence = std_min(1000, @ + 100),
                        !.reason = @ \o "_long_content_boost"]
    ELSE result

apply_context_adjustments(result, context) ==
    length_adjustment(category_adjustment(app_adjustment(result, context), context),
                      context)

classify_with_context(content, context) ==
    apply_context_adjustments(classify_with_heuristics(content), context)

classify_content_with_context(content, app_package) ==
    classify_with_context(content,
        ClassificationContext(app_package, determine_category(content), "en",
                              Len(content)))

(***************************************************************************)
(* Inputs of the context-aware classifier                                  *)
(***************************************************************************)
AppPackages == {
    <<"c","o","m",".","l","i","n","k","e","d","i","n",".","a","n","d","r","o","i","d">>,
    <<"c","o","m",".","t","i","k","t","o","k",".","a","p","p">>,
    <<"c","o","m",".","e","x","a","m","p","l","e",".","r","e","a","d","e","r">>,
    <<"l","i","n","k","e","d","i","n",".","t","i","k","t","o","k">> }

\* one text for each kind of result of the heuristic engine
ContextTexts == {
    <<>>,
    <<"l","e","a","r","n"," ","s","h","o","c","k","i","n","g">>,
    <<"t","u","t","o","r","i","a","l">>,
    <<"u","n","d","e","r","s","t","a","n","d">>,
    <<"o","m","g">>,
    <<"y","o","u"," ","w","o","n","'","t"," ","b","e","l","i","e","v","e">>,
    <<"H","E","L","L","o">>,
    <<"?","?","?","?">> }

ContentLengths == {0, 49, 50, 51, 500, 501}

Contexts ==
    {ClassificationContext(a, c, "en", n) :
        a \in AppPackages, c \in ContentCategory, n \in ContentLengths}

(***************************************************************************)
(* The public functions of content_classifier.cpp applied to one text      *)
(***************************************************************************)
InitCat ==
    /\ AtRest
    /\ h_pc = "start"
    /\ h_text \in CatTexts
    /\ h_result = NoResult

CategoryName ==
    /\ h_pc = "start"
    /\ h_result' = get_content_category_name(h_text)
    /\ h_pc' = "done"
    /\ UNCHANGED <<restVars, h_text>>

ClassifyContentWithContext ==
    /\ h_pc = "start"
    /\ \/ /\ \E app_package \in AppPackages :
                h_result' = [app_package |-> app_package,
                             result |-> classify_content_with_context(h_text, app_package)]
          /\ h_pc' = "classified"
       \/ Raised(exception_what)
    /\ UNCHANGED <<restVars, h_text>>

NextCat == CategoryName \/ ClassifyContentWithContext

SpecCat == InitCat /\ [][NextCat]_vars

(***************************************************************************)
(* classify_with_context applied to one text in one context                *)
(***************************************************************************)
InitCtx ==
    /\ AtRest
    /\ h_pc = "start"
    /\ h_text \in [content : ContextTexts, context : Contexts]
    /\ h_result = NoResult

ClassifyWithContext ==
    /\ h_pc = "start"
    /\ \/ /\ h_result' = classify_with_context(h_text.content, h_text.context)
          /\ h_pc' = "done"
       \/ Raised(exception_what)
    /\ UNCHANGED <<restVars, h_text>>

NextCtx == ClassifyWithContext

SpecCtx == InitCtx /\ [][NextCtx]_vars

(***************************************************************************)
(* ModelLoader::validate_model_file (jni/model_loader.cpp).  A file is     *)
(* what the validator can see of it: whether it opens, its size in bytes   *)
(* and its first bytes (at most four).                                     *)
(***************************************************************************)
GGUF == <<"G","G","U","F">>

\* validate_model_file with "<=" for "<": a file of exactly 1 KiB is rejected
validate_model_file_le(file) ==
    IF ~file.is_open THEN FALSE
    ELSE IF file.size <= 1024 THEN FALSE
    ELSE IF file.magic # GGUF THEN FALSE
    ELSE TRUE

validate_model_file(file) ==
    IF ~file.is_open THEN FALSE
    ELSE IF file.size < 1024 THEN FALSE
    ELSE IF file.magic # GGUF THEN FALSE
    ELSE TRUE

validate_gguf_model(file) == validate_model_file(file)

FileSizes == {0, 2, 4, 500, 1023, 1024, 1025, 1028, 4096}

Magics == {GGUF,
           <<"G","G","M","L">>,
           <<"g","g","u","f">>,
           <<"G","G","U","X">>,
           <<"\t","G","G","U">>}

\* the files: one that does not open (missing, a directory, no permission),
\* and the files of each size and each beginning
Files ==
    {[is_open |-> o, size |-> n,
      magic |-> SubSeq(g, 1, IF n < 4 THEN n ELSE 4)] :
        o \in BOOLEAN, n \in FileSizes, g \in Magics}

(***************************************************************************)
(* The validator applied to one file                                       *)
(***************************************************************************)
InitValidate ==
    /\ AtRest
    /\ h_pc = "start"
    /\ h_text \in Files
    /\ h_result = NoResult

Validate ==
    /\ h_pc = "start"
    /\ h_result' = [ret |-> validate_gguf_model(h_text), file |-> h_text]
    /\ h_pc' = "done"
    /\ UNCHANGED <<restVars, h_text>>

NextValidate == Validate

SpecValidate == InitValidate /\ [][NextValidate]_vars

(***************************************************************************)
(* ModelLoader::download_model_async and create_placeholder_model          *)
(* (jni/model_loader.cpp).  The task runs on its own thread, one step at a *)
(* time; progress is in thousandths.                                       *)
(***************************************************************************)
LoadStatus == {"NOT_STARTED", "DOWNLOADING", "VALIDATING", "LOADING", "LOADED", "ERROR"}

LoadProgress(s, p, m, e) ==
    [status |-> s, progress |-> p, message |-> m, error_message |-> e]

\* progress_callback(progress), when a callback was given
progress_callback(progress) ==
    dl_events' = IF dl_callback THEN Append(dl_events, progress) ELSE dl_events

\* loop_progress by integer division: 0 until i reaches 100
loop_progress_truncated(i) == (i \div 100) * 1000

\* i / 100.0f
loop_progress(i) == i * 10

\* terminal_event reporting no progress for a failure
terminal_event_zero_on_error(success) ==
    LoadProgress(IF success THEN "LOADED" ELSE "ERROR",
                 IF success THEN 1000 ELSE 0,
                 IF success THEN "Download completed" ELSE "Download failed",
                 IF success THEN "" ELSE "Failed to create model file")

\* the LoadProgress built after create_placeholder_model returned
terminal_event(success) ==
    LoadProgress(IF success THEN "LOADED" ELSE "ERROR",
                 1000,
                 IF success THEN "Download completed" ELSE "Download failed",
                 IF success THEN "" ELSE "Failed to create model file")

\* the call: the task is launched with its captured arguments
download_model_async(target_path, callback) ==
    /\ dl_pc = "idle"
    /\ dl_pc' = "launched"
    /\ dl_target' = target_path
    /\ dl_callback' = callback
    /\ UNCHANGED <<dl_i, dl_events, dl_ret, fs>>

\* task_start announcing LOADING before the download loop
task_start_loading ==
    /\ dl_pc = "launched"
    /\ progress_callback(LoadProgress("LOADING", 0, "Starting download...", ""))
    /\ dl_i' = 0
    /\ dl_pc' = "loop"
    /\ UNCHANGED <<dl_target, dl_callback, dl_ret, fs>>

\* "if (progress_callback) { ... DOWNLOADING, 0.0f ... }", then "int i = 0"
task_start ==
    /\ dl_pc = "launched"
    /\ progress_callback(LoadProgress("DOWNLOADING", 0, "Starting download...", ""))
    /\ dl_i' = 0
    /\ dl_pc' = "loop"
    /\ UNCHANGED <<dl_target, dl_callback, dl_ret, fs>>

\* one iteration of "for (int i = 0; i <= 100; i += 10)"
task_loop ==
    /\ dl_pc = "loop"
    /\ dl_i <= 100
    /\ progress_callback(LoadProgress("DOWNLOADING", loop_progress(dl_i),
                                     "Downloading... " \o ToString(dl_i) \o "%", ""))
    /\ dl_i' = dl_i + 10
    /\ UNCHANGED <<dl_pc, dl_target, dl_callback, dl_ret, fs>>

\* create_placeholder_model(filepath): the ofstream opens, truncating the
\* file, or does not (no directory, no permission) and false is returned;
\* opened, "GGUF" and 1024 zero bytes are written, or the writes fail (no
\* space left) and the file stays without bytes: the stream's state is not
\* looked at and true is returned
create_placeholder_model(filepath, is_open, written) ==
    /\ fs' = IF ~is_open THEN fs
             ELSE IF written THEN [fs EXCEPT ![filepath] = "placeholder"]
             ELSE [fs EXCEPT ![filepath] = "empty"]
    /\ dl_ret' = is_open

\* task_create that first waits until the manager holds no model
task_create_waits_for_unload ==
    /\ dl_pc = "loop"
    /\ ~(dl_i <= 100)
    /\ ~model_loaded_
    /\ \E is_open, written \in BOOLEAN :
          create_placeholder_model(dl_target, is_open, written)
    /\ dl_pc' = "created"
    /\ UNCHANGED <<dl_target, dl_callback, dl_i, dl_events>>

\* the loop is left; "bool success = create_placeholder_model(target_path)"
task_create ==
    /\ dl_pc = "loop"
    /\ ~(dl_i <= 100)
    /\ \E is_open, written \in BOOLEAN :
          create_placeholder_model(dl_target, is_open, written)
    /\ dl_pc' = "created"
    /\ UNCHANGED <<dl_target, dl_callback, dl_i, dl_events>>

\* "if (progress_callback) { ... success ? LOADED : ERROR ... }; return success"
task_finish ==
    /\ dl_pc = "created"
    /\ progress_callback(terminal_event(dl_ret))
    /\ dl_pc' = "done"
    /\ UNCHANGED <<dl_target, dl_callback, dl_i, dl_ret, fs>>

(***************************************************************************)
(* One acquisition task                                                    *)
(***************************************************************************)
InitDownload ==
    /\ LLAMA_CPP_AVAILABLE = FALSE
    /\ g_llama_wrapper = TRUE
    /\ model_loaded_ = FALSE
    /\ model_config_ = ""
    /\ model_ = nullptr
    /\ ctx_ = nullptr
    /\ live_models = {}
    /\ live_ctxs = {}
    /\ fs = InitialFs
    /\ lastOp = "init"
    /\ prevOp = "init"
    /\ last_load = "none"
    /\ arg = <<>>
    /\ ret = TRUE
    /\ pre = mgr
    /\ h_pc = "idle"
    /\ h_text = <<>>
    /\ h_result = NoResult
    /\ NoTask

taskRest == <<LLAMA_CPP_AVAILABLE, g_llama_wrapper, mgrVars, histVars, heurVars>>

DownloadModelAsync ==
    /\ \E target_path \in Paths, callback \in BOOLEAN :
          download_model_async(target_path, callback)
    /\ UNCHANGED taskRest

TaskStart == task_start /\ UNCHANGED taskRest
TaskLoop == task_loop /\ UNCHANGED taskRest
TaskCreate == task_create /\ UNCHANGED taskRest
TaskFinish == task_finish /\ UNCHANGED taskRest

NextDownload ==
    \/ DownloadModelAsync \/ TaskStart \/ TaskLoop \/ TaskCreate \/ TaskFinish

SpecDownload == InitDownload /\ [][NextDownload]_vars

(***************************************************************************)
(* The lifecycle manager and one acquisition task, their steps interleaved *)
(* in any order.                                                           *)
(***************************************************************************)
\* the paths and the text the interleaved calls are given
SystemPaths == {"missing.gguf", "model.gguf"}
SystemTexts == {<<"l","e","a","r","n">>}

SystemLoad == \E config \in SystemPaths : load_model(config)
SystemClassify == \E content \in SystemTexts : classify_content(content)

SystemDownload ==
    /\ \E target_path \in SystemPaths, callback \in BOOLEAN :
          download_model_async(target_path, callback)
    /\ UNCHANGED taskRest

NextSystem ==
    \/ SystemLoad \/ Unload \/ SystemClassify
    \/ SystemDownload \/ TaskStart \/ TaskLoop \/ TaskCreate \/ TaskFinish

SpecSystem == Init /\ [][NextSystem]_vars

(***************************************************************************)
(* The classification entry points: the manager driven by any sequence of  *)
(* calls, or classify_with_context applied to one text in one context      *)
(***************************************************************************)
InitEntry == Init \/ InitCtx

ManagerCall == h_pc = "idle" /\ Next

NextEntry == ManagerCall \/ ClassifyWithContext

SpecEntry == InitEntry /\ [][NextEntry]_vars

(***************************************************************************)
(* Concurrent callers of classify_content: each call is three steps (the   *)
(* two early returns; the try block; the return), and the steps of         *)
(* different callers interleave.  Here h_pc, h_text and h_result hold one  *)
(* entry per caller.  load_model and unload_model run only while no call   *)
(* is in progress.                                                         *)
(***************************************************************************)
\* two threads, each calling classify_content again and again
Callers == {"t1", "t2"}

NoCallInProgress == \A c \in Callers : h_pc[c] = "idle"

InitConcurrent ==
    /\ LLAMA_CPP_AVAILABLE \in BOOLEAN
    /\ g_llama_wrapper = TRUE
    /\ model_loaded_ = FALSE
    /\ model_config_ = ""
    /\ model_ = nullptr
    /\ ctx_ = nullptr
    /\ live_models = {}
    /\ live_ctxs = {}
    /\ fs = InitialFs
    /\ lastOp = "init"
    /\ prevOp = "init"
    /\ last_load = "none"
    /\ arg = <<>>
    /\ ret = TRUE
    /\ pre = mgr
    /\ h_pc = [c \in Callers |-> "idle"]
    /\ h_text = [c \in Callers |-> NoResult]
    /\ h_result = [c \in Callers |-> NoResult]
    /\ NoTask

callerRest == <<LLAMA_CPP_AVAILABLE, g_llama_wrapper, fs, histVars, dlVars>>

\* classify_content up to its try block: the two early returns
classify_content_begin(c, content) ==
    /\ g_llama_wrapper
    /\ h_pc[c] = "idle"
    /\ h_text' = [h_text EXCEPT ![c] = [content |-> content, entered |-> mgr]]
    /\ IF ~model_loaded_
       THEN /\ \E r \in FailureResults("Model not loaded") :
                  h_result' = [h_result EXCEPT ![c] = r]
            /\ h_pc' = [h_pc EXCEPT ![c] = "returned"]
       ELSE IF content = <<>>
       THEN /\ \E r \in FailureResults("Empty content") :
                  h_result' = [h_result EXCEPT ![c] = r]
            /\ h_pc' = [h_pc EXCEPT ![c] = "returned"]
       ELSE /\ h_result' = h_result
            /\ h_pc' = [h_pc EXCEPT ![c] = "engine"]
    /\ UNCHANGED mgrVars

\* the try block that ends by writing through the context handle
classify_content_engine_releases_context(c) ==
    /\ h_pc[c] = "engine"
    /\ \E r \in engine_results(h_text[c].content) :
          h_result' = [h_result EXCEPT ![c] = r]
    /\ h_pc' = [h_pc EXCEPT ![c] = "returned"]
    /\ ctx_' = nullptr
    /\ UNCHANGED <<model_loaded_, model_config_, model_, live_models, live_ctxs, h_text>>

\* the try block of classify_content: reads llama_available_ and ctx_, runs
\* the engine on the caller's text
classify_content_engine(c) ==
    /\ h_pc[c] = "engine"
    /\ \E r \in engine_results(h_text[c].content) :
          h_result' = [h_result EXCEPT ![c] = r]
    /\ h_pc' = [h_pc EXCEPT ![c] = "returned"]
    /\ UNCHANGED <<mgrVars, h_text>>

\* the caller takes the returned result
classify_content_return(c) ==
    /\ h_pc[c] = "returned"
    /\ h_pc' = [h_pc EXCEPT ![c] = "idle"]
    /\ h_result' = [h_result EXCEPT ![c] = NoResult]
    /\ h_text' = [h_text EXCEPT ![c] = NoResult]
    /\ UNCHANGED mgrVars

ClassifyBegin ==
    /\ \E c \in Callers, content \in ManagerTexts : classify_content_begin(c, content)
    /\ UNCHANGED callerRest

ClassifyEngine ==
    /\ \E c \in Callers : classify_content_engine(c)
    /\ UNCHANGED callerRest

ClassifyReturn ==
    /\ \E c \in Callers : classify_content_return(c)
    /\ UNCHANGED callerRest

QuietLoad == NoCallInProgress /\ SystemLoad

QuietUnload == NoCallInProgress /\ Unload

NextConcurrent ==
    \/ QuietLoad
    \/ QuietUnload
    \/ ClassifyBegin
    \/ ClassifyEngine
    \/ ClassifyReturn

SpecConcurrent == InitConcurrent /\ [][NextConcurrent]_vars

(***************************************************************************)
(* What validate_model_file finds at a path of the file system: no file    *)
(* that opens; an empty file; the placeholder's 4 + 1024 bytes; or, for a  *)
(* file that was there from the start, any non-empty content               *)
(***************************************************************************)
files_at(path) ==
    CASE fs[path] \in {"missing", "unreadable"} -> {f \in Files : ~f.is_open}
      [] fs[path] = "empty" -> {f \in Files : f.is_open /\ f.size = 0}
      [] fs[path] = "placeholder" ->
            {f \in Files : f.is_open /\ f.size = 1028 /\ f.magic = GGUF}
      [] OTHER -> {f \in Files : f.is_open /\ f.size > 0}

\* validate_model_file(filepath) on the file system as it is
validates(path) == \A f \in files_at(path) : validate_model_file(f)

(***************************************************************************)
(* The heuristic engine applied to one long text: a filler whose length is *)
(* near the limit of prepare_content_for_analysis, a space, and a phrase   *)
(***************************************************************************)
Pad(n) == [i \in 1..n |-> "a"]

TailPhrases == {<<"s","h","o","c","k","i","n","g">>,
            <<"t","u","t","o","r","i","a","l">>,
            <<"V","i","r","a","l">>,
            <<"c","a","t">>,
            <<" ","\n"," ">>}

LongTexts ==
    {Pad(n) \o <<" ">> \o p :
        n \in (max_content_length - MaxPad)..(max_content_length + MaxPad),
        p \in TailPhrases}

\* the two scores of classify_with_heuristics: the greatest weight of a
\* productive pattern, and of an unproductive pattern, found in the text
pattern_scores(content) ==
    [productive |-> scan_patterns(productive_patterns, normalized(content), 1, 0),
     unproductive |-> scan_patterns(unproductive_patterns, normalized(content), 1, 0)]

InitLong ==
    /\ AtRest
    /\ h_pc = "start"
    /\ h_text \in LongTexts
    /\ h_result = NoResult

SpecLong == InitLong /\ [][NextHeur]_vars

(***************************************************************************)
(* The claims                                                              *)
(***************************************************************************)
PreLoaded == pre[1]
NotLoadedInfo == <<"Model not loaded", "">>
HeuristicReasons == {"educational_keywords", "unproductive_keywords", "mixed_content",
                     "neutral_content", "excessive_caps", "excessive_punctuation"}

\* C1: classify on an Unloaded manager (never loaded, unloaded, or after a
\* failed load) returns success=false with error "Model not loaded" for every
\* text, empty or not, carries no reason tag, and leaves the manager as it
\* was: Unloaded.  The bridge's classify answers the same way, with a record
\* of success and error alone.
C1_ClassifyUnloaded ==
    /\ (lastOp = "classify" /\ ~PreLoaded) =>
            /\ ret.success = FALSE
            /\ ret.error_message = "Model not loaded"
            /\ ret.reason = ""
            /\ ~model_loaded_
            /\ mgr = pre
    /\ (lastOp = "nativeClassify" /\ ~PreLoaded) =>
            /\ ret = [success |-> FALSE, error |-> "Model not loaded"]
            /\ ~model_loaded_
            /\ mgr = pre

\* a non-empty text classified on a manager left Unloaded by a failed load
C1_Witness ==
    /\ lastOp = "classify"
    /\ prevOp = "load"
    /\ last_load = "failed"
    /\ ~PreLoaded
    /\ arg # <<>>
    /\ ret.success = FALSE

\* C2: classify of the empty string on a Loaded manager returns success=false
\* with error "Empty content", no reason tag (nothing was scored), and leaves
\* the manager as it was: Loaded.
C2_ClassifyEmpty ==
    (lastOp = "classify" /\ PreLoaded /\ arg = <<>>) =>
        /\ ret.success = FALSE
        /\ ret.error_message = "Empty content"
        /\ ret.reason = ""
        /\ model_loaded_
        /\ mgr = pre

C2_Witness ==
    /\ lastOp = "classify"
    /\ PreLoaded
    /\ arg = <<>>
    /\ ret.error_message = "Empty content"

\* C3: after unload the manager is Unloaded (is_loaded false, memory_usage 0,
\* model_info "Model not loaded"), whatever state it was called in; an unload
\* that directly follows an unload changes nothing.
C3_UnloadIdempotent ==
    (lastOp = "unload") =>
        /\ ~is_model_loaded
        /\ get_memory_usage = 0
        /\ get_model_info = NotLoadedInfo
        /\ (prevOp = "unload" => mgr = pre)

\* the second of two unloads in a row, on a manager that had been loaded
C3_Witness ==
    /\ lastOp = "unload"
    /\ prevOp = "unload"
    /\ last_load = "ok"
    /\ ~is_model_loaded

\* C4: a load that returns failure leaves the manager Unloaded, whatever its
\* state before the call.
C4_FailedLoadLeavesUnloaded ==
    (lastOp = "load" /\ ret = FALSE) => ~is_model_loaded

\* C5 as claimed: with no backend compiled in, load succeeds exactly when the
\* file exists, is readable and is non-empty, and only a successful load sets
\* the loaded flag.
C5_LoadIffNonEmptyFile ==
    (~LLAMA_CPP_AVAILABLE /\ lastOp = "load") =>
        /\ ret = TRUE <=> fs[arg] = "data"
        /\ ret = TRUE => model_loaded_
        /\ ret = FALSE => model_loaded_ = PreLoaded

\* C5 as amended: with no backend compiled in, load succeeds and sets the
\* loaded flag exactly when the file can be opened for reading (it exists and
\* is readable; a zero-byte file is accepted); for a missing or unreadable
\* file it fails and leaves the loaded flag as it was.
C5_LoadIffFileOpens ==
    (~LLAMA_CPP_AVAILABLE /\ lastOp = "load") =>
        /\ ret = TRUE <=> fs[arg] \in {"empty", "data"}
        /\ ret = TRUE => model_loaded_
        /\ ret = FALSE => model_loaded_ = PreLoaded

\* a load of the zero-byte file that succeeded
C5_Witness ==
    /\ ~LLAMA_CPP_AVAILABLE
    /\ lastOp = "load"
    /\ fs[arg] = "empty"
    /\ ret = TRUE
    /\ model_loaded_

\* C6: with a backend compiled in, once a load has failed no classify returns
\* a successful verdict of the heuristic engine until a later load succeeds.
C6_NoHeuristicAfterFailedLoad ==
    (LLAMA_CPP_AVAILABLE /\ lastOp = "classify" /\ last_load = "failed") =>
        ~(ret.success /\ ret.reason \in HeuristicReasons)

\* C7: with a backend compiled in, at most one model handle and one context
\* handle are live, and every live handle is one the manager holds.
C7_OneLiveHandle ==
    LLAMA_CPP_AVAILABLE =>
        /\ Cardinality(live_models) <= 1
        /\ Cardinality(live_ctxs) <= 1
        /\ live_models \subseteq {model_}
        /\ live_ctxs \subseteq {ctx_}

\* C8: after unload or teardown no backend handle is live and the manager
\* holds none.
C8_UnloadReleasesAll ==
    (lastOp \in {"unload", "cleanup"}) =>
        /\ live_models = {}
        /\ live_ctxs = {}
        /\ model_ = nullptr
        /\ ctx_ = nullptr

\* C9: memory_usage is 0 exactly when the manager is Unloaded; Loaded with no
\* backend compiled in it is 209715200 whatever was loaded; Loaded with a
\* live backend context it is the size the backend reports for that context.
C9_MemoryUsage ==
    /\ get_memory_usage = 0 <=> ~is_model_loaded
    /\ (is_model_loaded /\ ~LLAMA_CPP_AVAILABLE) => get_memory_usage = 209715200
    /\ (is_model_loaded /\ LLAMA_CPP_AVAILABLE /\ ctx_ # nullptr) =>
           get_memory_usage = llama_state_get_size(ctx_)

\* Loaded from the zero-byte file with no backend: the estimate all the same
C9_Witness ==
    /\ ~LLAMA_CPP_AVAILABLE
    /\ is_model_loaded
    /\ model_config_ = "empty.gguf"
    /\ get_memory_usage = 209715200

\* the weights of the phrases of a table that occur in the normalized text
OccurringWeights(patterns, text) ==
    {patterns[i].second : i \in {k \in 1..Len(patterns) : find(normalized(text), patterns[k].first)}}

MaxWeight(patterns, text) ==
    LET ws == OccurringWeights(patterns, text)
    IN  IF ws = {} THEN 0 ELSE CHOOSE w \in ws : \A v \in ws : v <= w

CapsTrigger(text) ==
    LET letters == {i \in 1..Len(text) : isalpha(text[i])}
        caps == {i \in letters : isupper(text[i])}
    IN  2 * Cardinality(caps) > Cardinality(letters)

PunctuationTrigger(text) ==
    \E c \in {"!", "?"} : Cardinality({i \in 1..Len(text) : text[i] = c}) > 3

Verdict(p, c, r) ==
    /\ h_result.success
    /\ h_result.is_productive = p
    /\ h_result.confidence = c
    /\ h_result.reason = r

Tutorial == <<"t","u","t","o","r","i","a","l">>
YouWontBelieve == <<"y","o","u"," ","w","o","n","'","t"," ","b","e","l","i","e","v","e">>

\* C10: on a text that triggers no surface override, with P and U the largest
\* weight of an occurring productive and unproductive phrase (0 for none):
\* P > U gives productive, P, "educational_keywords"; U > P gives unproductive,
\* U, "unproductive_keywords"; P = U > 0 gives productive, 0.5,
\* "mixed_content"; P = U = 0 gives productive, 0.6, "neutral_content".
C10_KeywordDecision ==
    (h_pc = "done" /\ ~CapsTrigger(h_text) /\ ~PunctuationTrigger(h_text)) =>
        LET P == MaxWeight(productive_patterns, h_text)
            U == MaxWeight(unproductive_patterns, h_text)
        IN  /\ P > U => Verdict(TRUE, P, "educational_keywords")
            /\ U > P => Verdict(FALSE, U, "unproductive_keywords")
            /\ (P = U /\ P > 0) => Verdict(TRUE, 500, "mixed_content")
            /\ (P = U /\ P = 0) => Verdict(TRUE, 600, "neutral_content")
            /\ h_text = Tutorial => Verdict(TRUE, 900, "educational_keywords")
            /\ h_text = YouWontBelieve => Verdict(FALSE, 900, "unproductive_keywords")

\* two phrases of equal weight, one of each table
C10_Witness ==
    /\ h_pc = "done"
    /\ ~CapsTrigger(h_text)
    /\ ~PunctuationTrigger(h_text)
    /\ MaxWeight(productive_patterns, h_text) = 700
    /\ MaxWeight(unproductive_patterns, h_text) = 700
    /\ h_result.reason = "mixed_content"

\* the keyword stage's confidence, from the two maxima
KeywordConfidence(text) ==
    LET P == MaxWeight(productive_patterns, text)
        U == MaxWeight(unproductive_patterns, text)
    IN  IF P > U THEN P ELSE IF U > P THEN U ELSE IF P > 0 THEN 500 ELSE 600

KeywordProductive(text) ==
    MaxWeight(productive_patterns, text) >= MaxWeight(unproductive_patterns, text)

Larger(a, b) == IF a >= b THEN a ELSE b

\* C11: a text with more than half of its letters in upper case is
\* unproductive with confidence max(keyword confidence, 0.7) and, unless the
\* punctuation override triggers too, reason "excessive_caps", whatever the
\* keyword stage said; a text with exactly half, or with no letter, is not
\* tagged "excessive_caps".
C11_ExcessiveCaps ==
    (h_pc = "done") =>
        /\ CapsTrigger(h_text) =>
              /\ h_result.success
              /\ ~h_result.is_productive
              /\ h_result.confidence = Larger(KeywordConfidence(h_text), 700)
              /\ ~PunctuationTrigger(h_text) => h_result.reason = "excessive_caps"
        /\ ~CapsTrigger(h_text) => h_result.reason # "excessive_caps"

\* four capitals of five letters, no phrase of either table: the neutral
\* productive default is overridden
C11_Witness ==
    /\ h_pc = "done"
    /\ h_text = <<"H","E","L","L","o">>
    /\ KeywordConfidence(h_text) = 600
    /\ ~h_result.is_productive
    /\ h_result.confidence = 700
    /\ h_result.reason = "excessive_caps"

\* C12: a text with more than 3 '!' or more than 3 '?' is unproductive with
\* confidence max(confidence after the caps stage, 0.6) and reason
\* "excessive_punctuation", also when the caps override triggered; with at
\* most 3 of each the tag is not given; the overrides never make an
\* unproductive keyword verdict productive and never lower the confidence.
C12_ExcessivePunctuation ==
    (h_pc = "done") =>
        LET afterCaps == IF CapsTrigger(h_text)
                         THEN Larger(KeywordConfidence(h_text), 700)
                         ELSE KeywordConfidence(h_text)
        IN  /\ PunctuationTrigger(h_text) =>
                  /\ h_result.success
                  /\ ~h_result.is_productive
                  /\ h_result.confidence = Larger(afterCaps, 600)
                  /\ h_result.reason = "excessive_punctuation"
            /\ ~PunctuationTrigger(h_text) => h_result.reason # "excessive_punctuation"
            /\ ~KeywordProductive(h_text) => ~h_result.is_productive
            /\ h_result.confidence >= KeywordConfidence(h_text)

\* both overrides trigger: the reason is the punctuation tag, the confidence
\* the caps stage's 0.7
C12_Witness ==
    /\ h_pc = "done"
    /\ CapsTrigger(h_text)
    /\ PunctuationTrigger(h_text)
    /\ KeywordConfidence(h_text) = 600
    /\ h_result.reason = "excessive_punctuation"
    /\ h_result.confidence = 700

\* C13: the heuristic engine, given the empty text, fails with "Empty
\* content" and scores nothing.
C13_EngineRejectsEmpty ==
    (h_pc = "done" /\ h_text = <<>>) =>
        /\ h_result.success = FALSE
        /\ h_result.error_message = "Empty content"

\* the number of distinct phrases of a set that occur in the lower-cased text
Phrases(keywords, text) ==
    LET lowered == transform_tolower(text)
    IN  Cardinality({w \in {keywords[k] : k \in 1..Len(keywords)} :
                        \E i \in 1..(Len(lowered) - Len(w) + 1) :
                            SubSeq(lowered, i, i + Len(w) - 1) = w})

Counts(text) ==
    [news |-> Phrases(news_keywords, text),
     educational |-> Phrases(educational_keywords, text),
     entertainment |-> Phrases(entertainment_keywords, text),
     commercial |-> Phrases(commercial_keywords, text)]

StrictlyGreatest(n, k) == \A o \in DOMAIN n \ {k} : n[k] > n[o]

\* C14: the detector returns the category whose count of distinct phrases in
\* the lower-cased text is strictly greater than every other category's;
\* Unknown when all four counts are zero; News for two news phrases and one
\* educational phrase.
C14_StrictlyGreatestWins ==
    (h_pc = "done") =>
        LET n == Counts(h_text)
        IN  /\ \A k \in DOMAIN n : StrictlyGreatest(n, k) => h_result = k
            /\ (\A k \in DOMAIN n : n[k] = 0) => h_result = "unknown"
            /\ (n.news = 2 /\ n.educational = 1 /\ n.entertainment = 0
                /\ n.commercial = 0) => h_result = "news"

\* "News" twice and two educational phrases: the repeated phrase counts once
C14_Witness ==
    /\ h_pc = "done"
    /\ count(transform_tolower(h_text), "w") = 2
    /\ Counts(h_text).news = 1
    /\ Counts(h_text).educational = 2
    /\ h_result = "educational"

\* C15 (as amended): when the greatest count is not zero the detector returns
\* the first category in the order News, Educational, Entertainment,
\* Commercial whose count equals it, so that a tie goes to the earliest of
\* the tied categories; Social is never returned.
C15_TieOrder ==
    (h_pc = "done") =>
        LET n == Counts(h_text)
            order == <<"news", "educational", "entertainment", "commercial">>
            greatest(k) == \A o \in DOMAIN n : n[k] >= n[o]
        IN  /\ h_result # "social"
            /\ \A i \in 1..4 :
                  (n[order[i]] > 0 /\ greatest(order[i])
                   /\ \A j \in 1..(i - 1) : ~greatest(order[j]))
                  => h_result = order[i]

\* entertainment and commercial tie at two: entertainment is returned
C15_Witness ==
    /\ h_pc = "done"
    /\ Counts(h_text).entertainment = 2
    /\ Counts(h_text).commercial = 2
    /\ Counts(h_text).news < 2
    /\ Counts(h_text).educational < 2
    /\ h_result = "entertainment"

\* C15 (as claimed): a tie of the greatest count goes to the first of News,
\* Educational, Entertainment that has it, and some counts make the detector
\* fall through to Social.
C15_SocialReachable ==
    /\ (h_pc = "done") =>
          LET n == Counts(h_text)
              order == <<"news", "educational", "entertainment">>
              greatest(k) == \A o \in DOMAIN n : n[k] >= n[o]
          IN  \A i \in 1..3 :
                  (n[order[i]] > 0 /\ greatest(order[i])
                   /\ \A j \in 1..(i - 1) : ~greatest(order[j]))
                  => h_result = order[i]
    /\ \E news_score \in 0..Len(news_keywords),
          educational_score \in 0..Len(educational_keywords),
          entertainment_score \in 0..Len(entertainment_keywords),
          commercial_score \in 0..Len(commercial_keywords) :
            category_of_scores(news_score, educational_score,
                               entertainment_score, commercial_score) = "SOCIAL"

\* the result the heuristic engine hands to the adjustment
Base == classify_with_heuristics(h_text.content)

\* C16: the adjustment leaves is_productive and success as the base result
\* has them, whatever the context.
C16_VerdictUnchanged ==
    (h_pc = "done") =>
        /\ h_result.is_productive = Base.is_productive
        /\ h_result.success = Base.success

\* an unproductive base in a tiktok, commercial, short context: three rules
\* applied, the verdict is still unproductive
C16_Witness ==
    /\ h_pc = "done"
    /\ ~Base.is_productive
    /\ find(h_text.context.app_package, tiktok)
    /\ ~find(h_text.context.app_package, linkedin)
    /\ h_text.context.category = "COMMERCIAL"
    /\ h_text.context.content_length = 49
    /\ h_result.confidence # Base.confidence
    /\ ~h_result.is_productive
    /\ h_result.success

Clamp(c) == IF c > 1000 THEN 1000 ELSE c

EducationalProductive ==
    /\ h_pc = "done"
    /\ h_text.context.category = "EDUCATIONAL"
    /\ Base.is_productive

\* the reason is the base reason, the application tag if any, the given tag,
\* the length tag if any
ReasonHas(tag) ==
    \E before \in {"", "_linkedin_boost", "_tiktok_penalty"},
       after \in {"", "_short_content", "_long_content_boost"} :
        h_result.reason = Base.reason \o before \o tag \o after

\* C17 (as amended): with category Educational and a productive base of
\* confidence c the category step adds 0.15, clamped at 1.0, to the
\* confidence the application step left (c, or min(1.0, c + 0.2) for a
\* linkedin application) and appends "_educational_boost"; the length step
\* then multiplies by 0.8 below 50 characters and adds 0.1, clamped, above
\* 500.  So the result's confidence is min(1.0, c + 0.15), and 0.65 for
\* c = 0.5, when the application is not linkedin and the length is 50..500.
C17_EducationalBoost ==
    EducationalProductive =>
        LET c == Base.confidence
            n == h_text.context.content_length
            afterApp == IF find(h_text.context.app_package, linkedin)
                        THEN Clamp(c + 200) ELSE c
            afterCategory == Clamp(afterApp + 150)
        IN  /\ ReasonHas("_educational_boost")
            /\ h_result.confidence =
                  IF n < 50 THEN (afterCategory * 8) \div 10
                  ELSE IF n > 500 THEN Clamp(afterCategory + 100)
                  ELSE afterCategory
            /\ (~find(h_text.context.app_package, linkedin) /\ n >= 50 /\ n <= 500)
                  => /\ h_result.confidence = Clamp(c + 150)
                     /\ c = 500 => h_result.confidence = 650

\* base "mixed_content" at 0.5, Educational, no hint, 50 characters: 0.65
C17_Witness ==
    /\ EducationalProductive
    /\ Base.confidence = 500
    /\ ~find(h_text.context.app_package, linkedin)
    /\ h_text.context.content_length = 50
    /\ h_result.confidence = 650
    /\ h_result.reason = "mixed_content_educational_boost"

\* C17 (as claimed): with category Educational a productive base of
\* confidence c ends with confidence min(1.0, c + 0.15), 0.65 for c = 0.5,
\* and a reason containing "_educational_boost".
C17_EducationalBoostAlways ==
    EducationalProductive =>
        /\ ReasonHas("_educational_boost")
        /\ h_result.confidence = Clamp(Base.confidence + 150)
        /\ Base.confidence = 500 => h_result.confidence = 650

\* C18: the validator accepts a file exactly when it opens, has at least
\* 1024 bytes (1024 included) and begins with the bytes "GGUF"; it rejects a
\* 500-byte file, accepts a 1025-byte file with the marker, and leaves the
\* file as it was.
C18_Validate ==
    (h_pc = "done") =>
        /\ h_result.ret = TRUE <=>
              (h_text.is_open /\ h_text.size >= 1024 /\ h_text.magic = GGUF)
        /\ h_result.ret \in BOOLEAN
        /\ h_text.size = 500 => h_result.ret = FALSE
        /\ (h_text.is_open /\ h_text.size = 1025 /\ h_text.magic = GGUF)
              => h_result.ret = TRUE
        /\ h_result.file = h_text

\* a file of exactly 1024 bytes with the marker is accepted
C18_Witness ==
    /\ h_pc = "done"
    /\ h_text.is_open
    /\ h_text.size = 1024
    /\ h_text.magic = GGUF
    /\ h_result.ret = TRUE

Terminal(event) == event.status \in {"LOADED", "ERROR"}

\* C19: in one acquisition run with a callback the progress values handed
\* to it never decrease and lie in [0, 1]; exactly one event has a terminal
\* status (Loaded or Error) and it is the last one.
C19_ProgressEvents ==
    /\ \A k \in 1..Len(dl_events) :
          /\ dl_events[k].progress >= 0
          /\ dl_events[k].progress <= 1000
          /\ Terminal(dl_events[k]) => k = Len(dl_events) /\ dl_pc = "done"
    /\ \A k \in 1..(Len(dl_events) - 1) :
          dl_events[k].progress <= dl_events[k + 1].progress
    /\ (dl_pc = "done" /\ dl_callback) =>
          /\ dl_events # <<>>
          /\ Terminal(dl_events[Len(dl_events)])
    /\ ~dl_callback => dl_events = <<>>

\* a finished run that failed: thirteen events, the last one Error
C19_Witness ==
    /\ dl_pc = "done"
    /\ dl_callback
    /\ dl_ret = FALSE
    /\ Len(dl_events) = 13
    /\ dl_events[13].status = "ERROR"
    /\ \A k \in 1..12 : dl_events[k].status = "DOWNLOADING"

\* event k + 1 repeats the progress of event k
Repeats(k) == dl_events[k + 1].progress = dl_events[k].progress

\* C20 (as amended): the progress values are not strictly increasing: they
\* strictly increase from one loop event to the next (0.0, 0.1, ..., 1.0),
\* but the first loop event repeats the 0.0 of the starting event and the
\* terminal event repeats the 1.0 of the last loop event.
C20_ProgressRepeats ==
    /\ \A k \in 1..(Len(dl_events) - 1) :
          \/ dl_events[k].progress < dl_events[k + 1].progress
          \/ k = 1 /\ Repeats(k) /\ dl_events[k].progress = 0
          \/ Terminal(dl_events[k + 1]) /\ Repeats(k) /\ dl_events[k].progress = 1000
    /\ Len(dl_events) >= 2 => Repeats(1)
    /\ (dl_pc = "done" /\ dl_callback) => Repeats(Len(dl_events) - 1)

\* a finished run that succeeded, with both repetitions
C20_Witness ==
    /\ dl_pc = "done"
    /\ dl_callback
    /\ dl_ret = TRUE
    /\ Len(dl_events) = 13
    /\ Repeats(1)
    /\ Repeats(12)
    /\ \A k \in 2..11 : dl_events[k].progress < dl_events[k + 1].progress

\* C20 (as claimed): the progress values strictly increase from one
\* invocation of the callback to the next.
C20_StrictlyIncreasing ==
    \A k \in 1..(Len(dl_events) - 1) :
        dl_events[k].progress < dl_events[k + 1].progress

\* the place of a status in NotStarted, Downloading, Validating, Loading, Loaded
Rank(status) ==
    CASE status = "NOT_STARTED" -> 0
      [] status = "DOWNLOADING" -> 1
      [] status = "VALIDATING" -> 2
      [] status = "LOADING" -> 3
      [] status = "LOADED" -> 4
      [] status = "ERROR" -> 5

\* C21 (as amended): the status of successive events never goes backward
\* along NotStarted, Downloading, Validating, Loading, Loaded, and Error is
\* terminal; but it does not strictly advance: every event before the
\* terminal one carries Downloading, so Downloading is repeated, and
\* NotStarted, Validating and Loading are never carried.
C21_StatusNeverGoesBack ==
    /\ \A k \in 1..(Len(dl_events) - 1) :
          /\ dl_events[k].status # "ERROR"
          /\ \/ dl_events[k + 1].status = "ERROR"
             \/ Rank(dl_events[k].status) <= Rank(dl_events[k + 1].status)
          /\ dl_events[k].status = "DOWNLOADING"
    /\ \A k \in 1..Len(dl_events) :
          dl_events[k].status \in {"DOWNLOADING", "LOADED", "ERROR"}
    /\ Len(dl_events) >= 2 => dl_events[2].status = dl_events[1].status

\* a finished run that succeeded: Downloading twelve times, then Loaded
C21_Witness ==
    /\ dl_pc = "done"
    /\ dl_callback
    /\ Len(dl_events) = 13
    /\ \A k \in 1..12 : dl_events[k].status = "DOWNLOADING"
    /\ dl_events[13].status = "LOADED"

\* C21 (as claimed): from one event to the next the status strictly advances
\* along NotStarted, Downloading, Validating, Loading, Loaded, or becomes
\* Error, after which no event follows.
C21_StatusStrictlyAdvances ==
    \A k \in 1..(Len(dl_events) - 1) :
        /\ dl_events[k].status # "ERROR"
        /\ \/ dl_events[k + 1].status = "ERROR"
           \/ Rank(dl_events[k].status) < Rank(dl_events[k + 1].status)


\* a step of the acquisition task
TaskStep == TaskStart \/ TaskLoop \/ TaskCreate \/ TaskFinish

Running == dl_pc \in {"launched", "loop", "created"}

\* the number of steps the run still has to take
Remaining ==
    CASE dl_pc = "idle" -> 15
      [] dl_pc = "launched" -> 14
      [] dl_pc = "loop" -> 13 - (dl_i \div 10)
      [] dl_pc = "created" -> 1
      [] dl_pc = "done" -> 0

\* the variables of one type each, by which a step is told from stuttering
view == <<dl_pc, dl_i, dl_target, dl_callback, dl_events, fs, mgr, lastOp, prevOp>>

\* C22: an acquisition run, once started, completes with one outcome, Loaded
\* or Error, with or without a callback and whatever the manager is doing:
\* while it runs its next step is enabled in every state of the manager, each
\* of its steps brings it one step nearer to its end, no other step takes it
\* back, and at its end it has a boolean outcome, told by its last event when
\* there is a callback, and stays there.
C22_RunsToCompletion ==
    /\ [](Running => ENABLED TaskStep)
    /\ [](Remaining >= 0)
    /\ [][/\ Remaining' <= Remaining
          /\ <<dl_pc, dl_i>>' # <<dl_pc, dl_i>> => Remaining' = Remaining - 1
          /\ dl_pc = "done" => UNCHANGED <<dl_pc, dl_ret, dl_events>>]_view
    /\ [](dl_pc = "done" =>
            /\ dl_ret \in BOOLEAN
            /\ dl_callback =>
                  /\ dl_events # <<>>
                  /\ dl_events[Len(dl_events)].status
                        = IF dl_ret THEN "LOADED" ELSE "ERROR"
                  /\ \A k \in 1..(Len(dl_events) - 1) :
                        dl_events[k].status \notin {"LOADED", "ERROR"})

\* a run without a callback that ended while the manager, loaded, was
\* classifying
C22_Witness ==
    /\ dl_pc = "done"
    /\ ~dl_callback
    /\ dl_events = <<>>
    /\ dl_ret = TRUE
    /\ model_loaded_
    /\ lastOp = "classify"

ResultFields == {"success", "is_productive", "confidence", "reason", "processing_time_ms"}

\* C23 (as amended): a serialized result of the bridge's classify call has
\* error exactly when success is false; it has success, is_productive,
\* confidence, reason and processing_time_ms when the manager's classify was
\* reached, but on the bridge's own early returns (model not loaded, invalid
\* content) it has success = false and error and nothing else.
C23_SerializedFields ==
    (lastOp = "nativeClassify") =>
        /\ ("error" \in DOMAIN ret) <=> ~ret.success
        /\ \/ DOMAIN ret = {"success", "error"}
           \/ ResultFields \subseteq DOMAIN ret
        /\ (~g_llama_wrapper \/ ~PreLoaded) =>
              ret = [success |-> FALSE, error |-> "Model not loaded"]
        /\ DOMAIN ret = {"success", "error"} =>
              ret.error \in {"Model not loaded", "Invalid content"}
        /\ ResultFields \subseteq DOMAIN ret =>
              /\ g_llama_wrapper /\ PreLoaded
              /\ ~ret.success => ret.error \notin {"Model not loaded", "Invalid content"}

\* the bridge called with no model loaded: two fields only
C23_Witness ==
    /\ lastOp = "nativeClassify"
    /\ g_llama_wrapper
    /\ ~PreLoaded
    /\ DOMAIN ret = {"success", "error"}
    /\ ret.error = "Model not loaded"

\* C23 (as claimed): every serialized result of the bridge's classify call
\* has success, is_productive, confidence, reason and processing_time_ms,
\* and has error exactly when success is false.
C23_AllFieldsAlways ==
    (lastOp = "nativeClassify") =>
        /\ ResultFields \subseteq DOMAIN ret
        /\ ("error" \in DOMAIN ret) <=> ~ret.success

\* C24: a fault raised inside a classification is never propagated to the
\* caller: the manager's classify returns success = false with the fault's
\* message and leaves the manager as it was, and so does the context-aware
\* entry point of the engine.
C24_FaultsCaptured ==
    /\ (lastOp = "classify" /\ ret.error_message = exception_what) =>
          /\ ret.success = FALSE
          /\ mgr = pre
    /\ h_pc # "raised"
    /\ h_pc = "done" => h_result.success \in BOOLEAN

\* C25: every ClassificationResult returned by an entry point is well formed:
\* with success = false its error_message is not empty, with success = true
\* its confidence lies in [0, 1]; for the manager's classify_content on both
\* engines, for classify_with_heuristics and for classify_with_context.
WellFormed(r) ==
    /\ ~r.success => r.error_message # ""
    /\ r.success => (r.confidence >= 0 /\ r.confidence <= 1000)

C25_WellFormedResults ==
    /\ lastOp = "classify" => WellFormed(ret)
    /\ h_pc = "done" => (WellFormed(h_result) /\ WellFormed(Base))

\* a result the clamp acted on: a base below 1.0 whose three additions
\* would pass 1.0 ends at exactly 1.0
C25_Witness ==
    /\ h_pc = "done"
    /\ h_result.success
    /\ Base.confidence < 1000
    /\ h_result.confidence = 1000
    /\ h_result.reason = Base.reason \o "_linkedin_boost_educational_boost_long_content_boost"

\* C26: with the manager loaded and no load or unload running, classify
\* calls interleaved in any order leave the manager's state as each call
\* found it, and every call that completes returns the verdict, confidence
\* and reason that the engine in use gives for its text alone.
Alone(content) ==
    IF llama_available_ /\ ctx_ # nullptr THEN llama_result[content]
    ELSE heuristics_result[content]

C26_InterleavedCallsIndependent ==
    \A c \in Callers :
        /\ h_pc[c] # "idle" => mgr = h_text[c].entered
        /\ (h_pc[c] = "returned" /\ h_result[c].success) =>
              /\ h_result[c].is_productive = Alone(h_text[c].content).is_productive
              /\ h_result[c].confidence = Alone(h_text[c].content).confidence
              /\ h_result[c].reason = Alone(h_text[c].content).reason

\* two overlapping calls on different texts of a loaded manager: the first
\* has returned its verdict while the second is still in its try block
C26_Witness ==
    /\ model_loaded_
    /\ h_pc["t1"] = "returned"
    /\ h_pc["t2"] = "engine"
    /\ h_text["t1"].content = <<"l","e","a","r","n">>
    /\ h_text["t2"].content = <<"o","m","g">>
    /\ h_result["t1"].success
    /\ h_result["t1"].is_productive

\* C30: when an acquisition run ends with terminal status Loaded the file at
\* its target path passes validate_model_file (at least 1024 bytes, "GGUF"
\* first); the run's boolean outcome is true exactly when the terminal status
\* is Loaded and false exactly when it is Error.
C30_LoadedMeansValidated ==
    (dl_pc = "done") =>
        /\ dl_ret = TRUE => validates(dl_target)
        /\ dl_callback =>
              /\ dl_ret = TRUE <=> dl_events[Len(dl_events)].status = "LOADED"
              /\ dl_ret = FALSE <=> dl_events[Len(dl_events)].status = "ERROR"

\* C27: in every interleaving of an acquisition run with load, unload and
\* classify calls, no acquisition step changes the manager's state, no manager
\* call changes the run's position, events or the file system, and load_model
\* is given the run's target path only once the run has finished with a file
\* that passes the validator.
ManagerStep == <<dl_pc, dl_i>>' = <<dl_pc, dl_i>>

C27_IndependentAndHandedOver ==
    [][/\ ~ManagerStep => UNCHANGED <<mgr, lastOp, prevOp>>
       /\ ManagerStep => UNCHANGED <<dl_target, dl_callback, dl_events, fs>>
       /\ (ManagerStep /\ lastOp' = "load" /\ dl_pc # "idle" /\ arg' = dl_target) =>
             /\ dl_pc = "done"
             /\ dl_ret = TRUE
             /\ validates(dl_target)]_view

\* C28: the context adjustment applies its rules in a fixed order, app hint,
\* then category, then length: every addition to the confidence is clamped at
\* 1.0 before the next rule, the rules' suffixes follow the base reason in that
\* order, and the final confidence lies in [0, 1]; a length from 50 to 500
\* changes nothing, and the categories News, Social and Unknown add nothing.
AppRule ==
    LET app == h_text.context.app_package
    IN  IF find(app, linkedin)
        THEN (IF Base.is_productive THEN <<200, "_linkedin_boost">> ELSE <<0, "">>)
        ELSE IF find(app, tiktok) /\ ~Base.is_productive
        THEN <<100, "_tiktok_penalty">>
        ELSE <<0, "">>

CategoryRule ==
    LET category == h_text.context.category
    IN  IF category = "EDUCATIONAL" /\ Base.is_productive
        THEN <<150, "_educational_boost">>
        ELSE IF category = "ENTERTAINMENT" /\ ~Base.is_productive
        THEN <<100, "_entertainment_penalty">>
        ELSE IF category = "COMMERCIAL" /\ ~Base.is_productive
        THEN <<200, "_commercial_penalty">>
        ELSE <<0, "">>

C28_FixedOrderClamped ==
    (h_pc = "done") =>
        LET n == h_text.context.content_length
            afterApp == Clamp(Base.confidence + AppRule[1])
            afterCategory == Clamp(afterApp + CategoryRule[1])
            lengthTag == IF n < 50 THEN "_short_content"
                         ELSE IF n > 500 /\ Base.is_productive
                         THEN "_long_content_boost" ELSE ""
        IN  /\ h_result.reason = Base.reason \o AppRule[2] \o CategoryRule[2] \o lengthTag
            /\ h_result.confidence =
                  IF n < 50 THEN (afterCategory * 8) \div 10
                  ELSE IF n > 500 /\ Base.is_productive THEN Clamp(afterCategory + 100)
                  ELSE afterCategory
            /\ h_result.confidence >= 0
            /\ h_result.confidence <= 1000
            /\ (n >= 50 /\ n <= 500) =>
                  /\ lengthTag = ""
                  /\ h_result.confidence = afterCategory
            /\ h_text.context.category \in {"NEWS", "SOCIAL", "UNKNOWN"} =>
                  /\ CategoryRule = <<0, "">>
                  /\ (n >= 50 /\ n <= 500) => h_result.confidence = afterApp

\* an unproductive base under tiktok and Entertainment at the length 50: the
\* app rule's suffix, then the category's, and none for the length
C28_Witness ==
    /\ h_pc = "done"
    /\ ~Base.is_productive
    /\ h_text.context.content_length = 50
    /\ h_text.context.category = "ENTERTAINMENT"
    /\ h_result.reason = Base.reason \o "_tiktok_penalty_entertainment_penalty"
    /\ h_result.confidence = Clamp(Clamp(Base.confidence + 100) + 100)
    /\ h_result.confidence > Base.confidence

\* C29: the heuristic engine scores its patterns on the normalized text
\* (lower-cased, whitespace collapsed, trimmed, capped at the maximum length
\* with the marker appended, as for the prompt), so a text and its normalized
\* form get the same productive and unproductive scores and the same keyword
\* decision; a phrase wholly beyond the cap does not count.
Normalized(content) == prepare_content_for_analysis(transform_tolower(content))

C29_ScoresOfNormalizedText ==
    (h_pc = "done") =>
        /\ pattern_scores(h_text) = pattern_scores(Normalized(h_text))
        /\ h_result.reason = classify_with_heuristics(Normalized(h_text)).reason

\* C31: a load that returns failure changes nothing a caller can observe:
\* is_model_loaded, get_memory_usage and get_model_info, the artifact path it
\* reports included, answer after the call what they answered before it.
ObservedBefore ==
    LET loaded == pre[1]
        config == pre[2]
        ctx == pre[4]
    IN  [is_model_loaded |-> loaded,
         get_memory_usage |->
            IF ~loaded THEN 0
            ELSE IF llama_available_ /\ ctx # nullptr THEN llama_state_get_size(ctx)
            ELSE fallback_estimate,
         get_model_info |->
            IF ~loaded THEN <<"Model not loaded", "">>
            ELSE IF llama_available_ THEN <<"llama.cpp model loaded: ", config>>
            ELSE <<"Fallback mode: ", config>>]

ObservedNow ==
    [is_model_loaded |-> is_model_loaded,
     get_memory_usage |-> get_memory_usage,
     get_model_info |-> get_model_info]

C31_FailedLoadChangesNothing ==
    (lastOp = "load" /\ ret = FALSE) => ObservedNow = ObservedBefore

=============================================================================
